---------------------------- MODULE Spec2Model ----------------------------
(***************************************************************************)
(* Model of src/utils/ZipUtil.cpp: the ZipFile reader (index built by      *)
(* ExtractFilenames, GetFileIndex, GetFileData, GetFileTime, GetComment)   *)
(* and the ZipCreator writer (AddFile, SaveAs).                            *)
(*                                                                         *)
(* Strings are sequences of code points (TCHAR is a 16-bit character),     *)
(* on-disk names are sequences of bytes, and a uint32_t is a sequence of   *)
(* 32 bits, most significant bit first.                                    *)
(***************************************************************************)
EXTENDS Integers, Sequences, FiniteSets, TLC

(***************************************************************************)
(* Bounds of the model.                                                    *)
(***************************************************************************)
\* the largest number of entries of an archive that the reader opens
MaxEntries == 2
\* the largest number of (path, name) pairs the writer holds
MaxPending == 2

(***************************************************************************)
(* Characters and strings.                                                 *)
(***************************************************************************)
\* the characters of the model: 'A', 'a', 'b', '/', '?', 'S-caron', 's-caron'
\* (its low byte is that of 'a'), and what code page 437 makes of the two
\* bytes of UTF-8 's-caron' (BOX DRAWINGS LIGHT VERTICAL AND HORIZONTAL and
\* 'i-acute'); U+FFFD stands for an undecodable byte
Ch == [A |-> 65, a |-> 97, b |-> 98, slash |-> 47, question |-> 63,
       ScaronUp |-> 352, scaron |-> 353, box |-> 9532, iacute |-> 237,
       replacement |-> 65533]

\* _totlower
ToLower(c) ==
    IF c >= 65 /\ c <= 90 THEN c + 32
    ELSE IF c = Ch.ScaronUp THEN Ch.scaron
    ELSE c

\* str::EqI: equality ignoring case
EqI(s, t) ==
    /\ Len(s) = Len(t)
    /\ \A k \in 1..Len(s) : ToLower(s[k]) = ToLower(t[k])

\* str::conv::ToUtf8 of one character
Utf8OfChar(c) ==
    IF c < 128 THEN <<c>>
    ELSE IF c < 2048 THEN <<192 + (c \div 64), 128 + (c % 64)>>
    ELSE <<224 + (c \div 4096), 128 + ((c \div 64) % 64), 128 + (c % 64)>>

RECURSIVE ToUtf8(_)
ToUtf8(s) ==
    IF s = <<>> THEN <<>> ELSE Utf8OfChar(Head(s)) \o ToUtf8(Tail(s))

\* the bytes above 127 whose code page 437 character the model knows
Cp437High == (197 :> Ch.box) @@ (161 :> Ch.iacute)

\* MultiByteToWideChar(CP_UTF8): a malformed sequence gives U+FFFD
RECURSIVE FromUtf8(_)
FromUtf8(b) ==
    IF b = <<>> THEN <<>>
    ELSE IF b[1] < 128 THEN <<b[1]>> \o FromUtf8(Tail(b))
    ELSE IF b[1] >= 192 /\ b[1] < 224 /\ Len(b) >= 2 /\ b[2] >= 128 /\ b[2] < 192
        THEN <<(b[1] - 192) * 64 + (b[2] - 128)>> \o FromUtf8(Tail(Tail(b)))
    ELSE IF b[1] >= 224 /\ b[1] < 240 /\ Len(b) >= 3
            /\ b[2] >= 128 /\ b[2] < 192 /\ b[3] >= 128 /\ b[3] < 192
        THEN <<(b[1] - 224) * 4096 + (b[2] - 128) * 64 + (b[3] - 128)>>
                 \o FromUtf8(Tail(Tail(Tail(b))))
    ELSE <<Ch.replacement>> \o FromUtf8(Tail(b))

\* MultiByteToWideChar(CP_ZIP): one character per byte
FromCp437(b) ==
    [k \in 1..Len(b) |->
        IF b[k] < 128 THEN b[k]
        ELSE IF b[k] \in DOMAIN Cp437High THEN Cp437High[b[k]]
        ELSE Ch.replacement]

\* WideCharToMultiByte(CP_ZIP): a character outside the code page gives '?'
ToCp437(s) ==
    [k \in 1..Len(s) |->
        IF s[k] < 128 THEN s[k]
        ELSE IF \E h \in DOMAIN Cp437High : Cp437High[h] = s[k]
            THEN CHOOSE h \in DOMAIN Cp437High : Cp437High[h] = s[k]
        ELSE Ch.question]

CP_ZIP == 437
CP_UTF8 == 65001

\* str::conv::FromCodePageBuf and str::conv::ToCodePageBuf
FromCodePage(b, cp) == IF cp = CP_UTF8 THEN FromUtf8(b) ELSE FromCp437(b)
ToCodePage(s, cp) == IF cp = CP_UTF8 THEN ToUtf8(s) ELSE ToCp437(s)

(***************************************************************************)
(* uint32_t arithmetic and GetQuickHashI.                                  *)
(***************************************************************************)
\* the 32 bits of n, 0 <= n < 2^31
Word32(n) == [k \in 1..32 |-> IF k = 1 THEN 0 ELSE (n \div (2 ^ (32 - k))) % 2]

Xor32(a, b) == [k \in 1..32 |-> (a[k] + b[k]) % 2]

Shl32(w, n) == [k \in 1..32 |-> IF k + n <= 32 THEN w[k + n] ELSE 0]

\* (b & 0xFF) << 24
ByteToTop(b) ==
    [k \in 1..32 |-> IF k <= 8 THEN ((b % 256) \div (2 ^ (8 - k))) % 2 ELSE 0]

\* w & 0xFF000000L
AndTopByte(w) == [k \in 1..32 |-> IF k <= 8 THEN w[k] ELSE 0]

\* 0x04C11DB7L
POLY == 79764919

\* one round of the inner loop
CrcRound(bits) ==
    IF bits[1] = 1 THEN Xor32(Shl32(bits, 1), Word32(POLY)) ELSE Shl32(bits, 1)

RECURSIVE CrcRounds(_, _)
CrcRounds(bits, n) == IF n = 0 THEN bits ELSE CrcRounds(CrcRound(bits), n - 1)

\* the body of the outer loop, for one character
HashStep(crc, c) ==
    Xor32(Shl32(crc, 8), CrcRounds(AndTopByte(Xor32(crc, ByteToTop(ToLower(c)))), 8))

RECURSIVE HashFrom(_, _)
HashFrom(crc, s) == IF s = <<>> THEN crc ELSE HashFrom(HashStep(crc, Head(s)), Tail(s))

GetQuickHashI(str) == HashFrom(Word32(0), str)

(***************************************************************************)
(* size_t.  The model keeps the arithmetic of the overflow check of        *)
(* GetFileData at a width of SizeBits bits.                                *)
(***************************************************************************)
SizeBits == 8
SizeMax == (2 ^ SizeBits) - 1
ToSizeT(n) == n % (2 ^ SizeBits)
\* sizeof(WCHAR)
SizeofWchar == 2
\* (size_t)-1
NOT_FOUND == SizeMax
\* (ZPOS64_T)-1
INVALID_ZIP_FILE_POS == -1
\* bit 11 of the general purpose flags: the name is UTF-8
Utf8Flag == 2048

\* the largest request the allocator of the handle satisfies
AllocLimit == 100

(***************************************************************************)
(* Archives.  An entry holds the bytes of its name, its flags, its payload *)
(* and the size its header declares, and what the codec reports on it:     *)
(*   noinfo  unzGetCurrentFileInfo64 fails on it                           *)
(*   nonext  unzGoToNextFile fails when it is the current file             *)
(*   nopos   unzGetFilePos64 fails on it                                   *)
(*   badpos  unzGoToFilePos64 rejects its locator                          *)
(*   noopen  unzOpenCurrentFilePassword fails on it                        *)
(*   badcrc  unzCloseCurrentFile reports a CRC error on it                 *)
(***************************************************************************)
Entry(name, flag, data, size, defects) ==
    [name |-> name, flag |-> flag, data |-> data, size |-> size,
     dosDate |-> 1000 + Len(data) + data[1], defects |-> defects]

\* the payload of the entry at position p: the payloads of an archive differ
Payload(p) == <<10 + p>>

\* the names on disk: "a", "A", and UTF-8 's-caron' with and without bit 11
DiskNames == { <<<<Ch.a>>, 0>>, <<<<Ch.A>>, 0>>,
               <<ToUtf8(<<Ch.scaron>>), Utf8Flag>>, <<ToUtf8(<<Ch.scaron>>), 0>> }

\* what can be wrong with an entry during the enumeration
WalkDefects == { {}, {"noinfo"}, {"nonext"}, {"nopos"} }

\* what can be wrong with an entry when it is read: <<declared size, defects>>
\* for a payload of n bytes
ReadKinds(n) ==
    { <<n, {}>>, <<n, {"nopos"}>>, <<n, {"badpos"}>>, <<n, {"noopen"}>>,
      <<n, {"badcrc"}>>, <<n + 1, {}>>, <<n + 1, {"badcrc"}>>,
      <<SizeMax - 1, {}>>, <<SizeMax + 45, {}>>, <<AllocLimit, {}>> }

\* the entries at position p of the archives that exercise the enumeration and
\* the lookup by name
WalkEntries(p) ==
    { Entry(n[1], n[2], Payload(p), Len(Payload(p)), {}) : n \in DiskNames }
    \cup { Entry(<<Ch.a>>, 0, Payload(p), Len(Payload(p)), d) : d \in WalkDefects }

\* the entries at position p of the archives that exercise the reads
ReadEntries(p) ==
    { Entry(<<Ch.a>>, 0, Payload(p), k[1], k[2]) : k \in ReadKinds(Len(Payload(p))) }
    \cup { Entry(<<Ch.A>>, 0, Payload(p), Len(Payload(p)), d) : d \in { {}, {"nopos"} } }

\* the archives of n entries, of either kind
RECURSIVE WalkSeqs(_)
WalkSeqs(n) ==
    IF n = 0 THEN { <<>> }
    ELSE { Append(es, e) : es \in WalkSeqs(n - 1), e \in WalkEntries(n) }

\* sound entries named "a" or "A", and the archives of n of them
PlainEntries(p) ==
    { Entry(n, 0, Payload(p), Len(Payload(p)), {}) : n \in { <<Ch.a>>, <<Ch.A>> } }

RECURSIVE PlainSeqs(_)
PlainSeqs(n) ==
    IF n = 0 THEN { <<>> }
    ELSE { Append(es, e) : es \in PlainSeqs(n - 1), e \in PlainEntries(n) }

\* the archives of n entries of which at most one is not sound
ReadSeqs(n) ==
    PlainSeqs(n) \cup
    UNION { { [es EXCEPT ![p] = e] : es \in PlainSeqs(n), e \in ReadEntries(p) } :
            p \in 1..n }

Archive(openable, entries, comment) ==
    [openable |-> openable, entries |-> entries, comment |-> comment]

Archives ==
    { Archive(TRUE, es, <<>>) :
        es \in UNION { WalkSeqs(n) \cup ReadSeqs(n) : n \in 0..MaxEntries } }
    \cup { Archive(TRUE, es, <<7, 8>>) : es \in WalkSeqs(0) \cup ReadSeqs(1) }
    \cup { Archive(FALSE, <<>>, <<>>) }

(***************************************************************************)
(* The archive codec (minizip's unzip side), on the entries es of the      *)
(* archive and the position c of its current file (0: none).               *)
(***************************************************************************)
UNZ_OK == "UNZ_OK"

HasDefect(es, p, d) == p \in 1..Len(es) /\ d \in es[p].defects

NoInfo == [flag |-> 0, uncompressed_size |-> 0, dosDate |-> 0]

unzGoToFirstFile(es) == IF Len(es) >= 1 THEN 1 ELSE 0

unzGetCurrentFileInfo64(es, c) ==
    IF c \notin 1..Len(es) \/ HasDefect(es, c, "noinfo")
    THEN [err |-> "UNZ_ERRNO", finfo |-> NoInfo, fileName |-> <<>>]
    ELSE [err |-> UNZ_OK,
          finfo |-> [flag |-> es[c].flag, uncompressed_size |-> es[c].size,
                     dosDate |-> es[c].dosDate],
          fileName |-> es[c].name]

unzGetFilePos64(es, c) ==
    IF c \notin 1..Len(es) \/ HasDefect(es, c, "nopos")
    THEN [err |-> "UNZ_END_OF_LIST_OF_FILE", num_of_file |-> 0]
    ELSE [err |-> UNZ_OK, num_of_file |-> c]

unzGoToNextFile(es, c) ==
    IF c \notin 1..Len(es) \/ c = Len(es)
    THEN [err |-> "UNZ_END_OF_LIST_OF_FILE", cur |-> c]
    ELSE IF HasDefect(es, c, "nonext") THEN [err |-> "UNZ_ERRNO", cur |-> 0]
    ELSE [err |-> UNZ_OK, cur |-> c + 1]

unzGoToFilePos64(es, pos) ==
    IF pos \notin 1..Len(es) \/ HasDefect(es, pos, "badpos")
    THEN [err |-> "UNZ_BADZIPFILE", cur |-> 0]
    ELSE [err |-> UNZ_OK, cur |-> pos]

\* the comparison of unzLocateFile, which ignores the case of 'a'..'z'
FoldByte(b) == IF b >= 97 /\ b <= 122 THEN b - 32 ELSE b
SameNameOnDisk(a, b) ==
    /\ Len(a) = Len(b)
    /\ \A k \in 1..Len(a) : FoldByte(a[k]) = FoldByte(b[k])

\* the walk of unzLocateFile from position p
RECURSIVE LocateFrom(_, _, _)
LocateFrom(es, p, name) ==
    IF p \notin 1..Len(es) \/ HasDefect(es, p, "noinfo") THEN 0
    ELSE IF SameNameOnDisk(es[p].name, name) THEN p
    ELSE IF HasDefect(es, p, "nonext") THEN 0
    ELSE LocateFrom(es, p + 1, name)

\* the current file is kept when no entry has the name
unzLocateFile(es, c, name) ==
    LET p == LocateFrom(es, 1, name)
    IN  IF p = 0 THEN [err |-> "UNZ_END_OF_LIST_OF_FILE", cur |-> c]
        ELSE [err |-> UNZ_OK, cur |-> p]

unzOpenCurrentFilePassword(es, c) ==
    IF c \notin 1..Len(es) \/ HasDefect(es, c, "noopen") THEN "UNZ_BADZIPFILE" ELSE UNZ_OK

\* the bytes read: at most len, and no more than the entry holds
unzReadCurrentFile(es, c, len) ==
    IF c \notin 1..Len(es) THEN <<>>
    ELSE SubSeq(es[c].data, 1, IF len < Len(es[c].data) THEN len ELSE Len(es[c].data))

unzCloseCurrentFile(es, c) ==
    IF HasDefect(es, c, "badcrc") THEN "UNZ_CRCERROR" ELSE UNZ_OK

\* the bytes of the archive comment read into a buffer of len bytes
unzGetGlobalComment(ar, len) ==
    SubSeq(ar.comment, 1, IF len < Len(ar.comment) THEN len ELSE Len(ar.comment))

(***************************************************************************)
(* The allocator and the buffers it hands out.                             *)
(***************************************************************************)
NullBuf == [null |-> TRUE, bytes |-> <<>>]
Buf(b) == [null |-> FALSE, bytes |-> b]

\* Allocator::Alloc: whether a request of n bytes is satisfied
Alloc(n) == n <= AllocLimit

\* Allocator::Free: the number of buffers freed after freeing buf
Free(buf, frees) == IF buf.null THEN frees ELSE frees + 1

(***************************************************************************)
(* State.                                                                  *)
(***************************************************************************)
VARIABLES
    archive,          \* the archive on disk that the ZipFile is opened on
    uf,               \* ZipFile::uf is not NULL
    filenames, filenameHashes, fileinfo, filepos, commentLen,
    origin,           \* history: the position in the archive of each index entry
    cur, entryOpen,   \* the codec: its current file, and whether an entry is open
    pc,               \* where the ZipFile is: none, ctor, enum, ready, find, cmp,
                      \* again, destroyed
    i, err,           \* the locals of ExtractFilenames
    caller, fname, hash, fi,   \* GetFileIndex: who called it, and its locals
    last,             \* the call that returned last, and what it returned
    snapshot,         \* history: what GetFileData returned for each index right
                      \* after the enumeration
    pathsAndZipNames, \* ZipCreatorData::pathsAndZipNames
    wpc,              \* where SaveAs is: idle, loop, exit
    wi, result,       \* the locals of SaveAs
    zf,               \* the archive being written: none, open, closed
    entryOpenW,       \* an entry of zf is open
    out,              \* the entries written to the archive at zipFilePath
    closes            \* history: the zipClose calls of the last SaveAs call

index == <<filenames, filenameHashes, fileinfo, filepos, origin>>
codec == <<cur, entryOpen>>
scan == <<caller, fname, hash, fi>>
reader == <<archive, uf, index, commentLen, codec, pc, i, err, scan, snapshot>>
writer == <<pathsAndZipNames, wpc, wi, result, zf, entryOpenW, out, closes>>
vars == <<reader, writer, last>>

NoTime == [valid |-> FALSE, dosDate |-> 0]

\* a call record: the operation, its arguments and what it returned (op is
\* "none" while no call has returned, or while one is running)
NoCall ==
    [op |-> "none", name |-> <<>>, index |-> 0, buf |-> NullBuf, len |-> 0,
     time |-> NoTime, ok |-> FALSE, opened |-> FALSE, allocated |-> FALSE,
     readBytes |-> 0, closeErr |-> "none", frees |-> 0, afterFailure |-> FALSE,
     afterSave |-> FALSE]

(***************************************************************************)
(* ZipFile::ZipFile and ZipFile::ExtractFilenames.                         *)
(***************************************************************************)
unzOpen2_64(ar) == ar.openable

\* bit 11 of the flags selects the code page of the name
CodePageOf(flag) == IF (flag \div Utf8Flag) % 2 = 1 THEN CP_UTF8 ELSE CP_ZIP

\* the locator appended for the current file
FilePosOfSkipped(perr, num_of_file, fp) ==
    IF perr # UNZ_OK THEN fp ELSE Append(fp, [num_of_file |-> num_of_file])

FilePosOf(perr, num_of_file, fp) ==
    Append(fp, [num_of_file |-> IF perr # UNZ_OK THEN INVALID_ZIP_FILE_POS
                                 ELSE num_of_file])

\* Vec::Find(el, startAt): the first position from startAt on that holds el
Find(v, el, startAt) ==
    IF \E k \in startAt..(Len(v) - 1) : v[k + 1] = el
    THEN CHOOSE k \in startAt..(Len(v) - 1) :
             /\ v[k + 1] = el
             /\ \A j \in startAt..(k - 1) : v[j + 1] # el
    ELSE -1

\* the loop condition of ExtractFilenames
WalkGoesOn == i < Len(archive.entries) /\ UNZ_OK = err

\* the loop body: one entry of the directory
ExtractStep ==
    /\ pc = "enum"
    /\ WalkGoesOn
    /\ LET info == unzGetCurrentFileInfo64(archive.entries, cur)
           fileNameT == FromCodePage(info.fileName, CodePageOf(info.finfo.flag))
           fpos == unzGetFilePos64(archive.entries, cur)
           next == unzGoToNextFile(archive.entries, cur)
       IN  /\ IF info.err = UNZ_OK
              THEN /\ filenames' = Append(filenames, fileNameT)
                   /\ filenameHashes' = Append(filenameHashes, GetQuickHashI(fileNameT))
                   /\ fileinfo' = Append(fileinfo, info.finfo)
                   /\ filepos' = FilePosOf(fpos.err, fpos.num_of_file, filepos)
                   /\ origin' = Append(origin, cur)
              ELSE UNCHANGED index
           /\ err' = next.err
           /\ cur' = next.cur
    /\ i' = i + 1
    /\ UNCHANGED <<archive, uf, commentLen, entryOpen, pc, scan, snapshot, last, writer>>

(***************************************************************************)
(* ZipFile::GetFileData(size_t fileindex, size_t *len).                    *)
(***************************************************************************)
\* what a call leaves behind: the buffer returned, the codec, and what happened
Outcome(buf, c, open) ==
    [buf |-> buf, len |-> Len(buf.bytes), cur |-> c, entryOpen |-> open,
     opened |-> FALSE, allocated |-> FALSE, readBytes |-> 0,
     closeErr |-> "none", frees |-> 0]

\* position the codec on the entry: by its locator, else by its name
LocateEntry(fileindex) ==
    LET fpos == filepos[fileindex + 1]
        byPos == IF fpos.num_of_file # INVALID_ZIP_FILE_POS
                 THEN unzGoToFilePos64(archive.entries, fpos.num_of_file)
                 ELSE [err |-> "UNSET", cur |-> cur]
        cp == CodePageOf(fileinfo[fileindex + 1].flag)
        fileNameA == ToCodePage(filenames[fileindex + 1], cp)
    IN  IF byPos.err # UNZ_OK
        THEN unzLocateFile(archive.entries, byPos.cur, fileNameA)
        ELSE byPos

\* the overflow check on the uncompressed size
SizeOverflows(size) ==
    LET len2 == ToSizeT(size)
    IN  len2 # size \/ ToSizeT(len2 + SizeofWchar) < SizeofWchar

\* the exit on a size that overflows: the entry is closed
OverflowExitLeavesOpen(c) == Outcome(NullBuf, c, TRUE)

OverflowExit(c) ==
    [Outcome(NullBuf, c, FALSE) EXCEPT
        !.opened = TRUE, !.closeErr = unzCloseCurrentFile(archive.entries, c)]

\* the check of the bytes read: a short read frees the buffer
ReadCheckKeepsBuffer(data, len2) ==
    [buf |-> Buf(data), frees |-> IF Len(data) # len2 THEN 1 ELSE 0]

ReadCheck(data, len2) ==
    IF Len(data) # len2
    THEN [buf |-> NullBuf, frees |-> Free(Buf(data), 0)]
    ELSE [buf |-> Buf(data), frees |-> 0]

\* the check of the close: an error frees the buffer
CloseCheck(r, cerr) ==
    IF cerr # UNZ_OK
    THEN [buf |-> NullBuf, frees |-> Free(r.buf, r.frees)]
    ELSE r

\* the entry is open: allocate, read, close
ReadOpenEntry(c, size) ==
    LET len2 == ToSizeT(size)
        allocated == Alloc(len2 + SizeofWchar)
        data == unzReadCurrentFile(archive.entries, c, len2)
        read == IF allocated THEN ReadCheck(data, len2)
                ELSE [buf |-> NullBuf, frees |-> 0]
        cerr == unzCloseCurrentFile(archive.entries, c)
        done == CloseCheck(read, cerr)
    IN  [Outcome(done.buf, c, FALSE) EXCEPT
            !.opened = TRUE, !.allocated = allocated,
            !.readBytes = IF allocated THEN Len(data) ELSE 0,
            !.closeErr = cerr, !.frees = done.frees]

GetFileData(fileindex) ==
    IF ~uf THEN Outcome(NullBuf, cur, entryOpen)
    ELSE IF fileindex >= Len(filenames) THEN Outcome(NullBuf, cur, entryOpen)
    ELSE LET at == LocateEntry(fileindex)
             size == fileinfo[fileindex + 1].uncompressed_size
         IN  IF at.err # UNZ_OK THEN Outcome(NullBuf, at.cur, entryOpen)
             ELSE IF unzOpenCurrentFilePassword(archive.entries, at.cur) # UNZ_OK
                 THEN Outcome(NullBuf, at.cur, entryOpen)
             ELSE IF SizeOverflows(size) THEN OverflowExit(at.cur)
             ELSE ReadOpenEntry(at.cur, size)

\* the record of a GetFileData call; afterFailure: the call before it on the
\* handle was a GetFileData of an entry of the index that failed
DataCall(name, fileindex, o) ==
    [NoCall EXCEPT !.op = "GetFileData", !.name = name, !.index = fileindex,
        !.buf = o.buf, !.len = o.len, !.opened = o.opened,
        !.allocated = o.allocated, !.readBytes = o.readBytes,
        !.closeErr = o.closeErr, !.frees = o.frees,
        !.afterFailure = /\ last.op = "GetFileData"
                         /\ last.buf.null
                         /\ last.index < Len(filenames)]

(***************************************************************************)
(* ZipFile::GetFileTime(size_t fileindex) and ZipFile::GetComment.         *)
(***************************************************************************)
\* DosDateTimeToFileTime and LocalFileTimeToFileTime
GetFileTime(fileindex) ==
    IF uf /\ fileindex < Len(fileinfo)
    THEN [valid |-> TRUE, dosDate |-> fileinfo[fileindex + 1].dosDate]
    ELSE NoTime

GetComment ==
    LET read == unzGetGlobalComment(archive, commentLen)
    IN  IF ~Alloc(commentLen + 1) \/ ~uf THEN NullBuf
        ELSE IF Len(read) <= 0 THEN NullBuf
        ELSE Buf(read)

\* the indices the model calls with: those of the index, the first one past
\* it, and (size_t)-1
Indices == 0..Len(filenames) \cup {NOT_FOUND}

\* what GetFileData returns for each index, as a function of the index
Snapshot == [k \in Indices |-> GetFileData(k).buf]

(***************************************************************************)
(* The operations of a ZipFile.                                            *)
(***************************************************************************)
\* the names the model asks for
Queries == { <<Ch.A>>, <<Ch.scaron>>, <<Ch.b>> }

\* the constructor: open the archive and start ExtractFilenames
ZipFileCtor ==
    /\ pc = "ctor"
    /\ uf' = unzOpen2_64(archive)
    /\ IF uf'
       THEN /\ err' = UNZ_OK
            /\ cur' = unzGoToFirstFile(archive.entries)
            /\ i' = 0
            /\ pc' = "enum"
            /\ UNCHANGED snapshot
       ELSE /\ pc' = "ready"
            /\ snapshot' = Snapshot
            /\ UNCHANGED <<err, cur, i>>
    /\ UNCHANGED <<archive, index, commentLen, entryOpen, scan, last, writer>>

\* the end of ExtractFilenames
ExtractDone ==
    /\ pc = "enum"
    /\ ~WalkGoesOn
    /\ commentLen' = Len(archive.comment)
    /\ pc' = "ready"
    /\ snapshot' = Snapshot
    /\ UNCHANGED <<archive, uf, index, codec, i, err, scan, last, writer>>

\* the calls that take a name start with GetFileIndex
EnterGetFileIndex(c, filename) ==
    /\ pc = "ready"
    /\ caller' = c
    /\ fname' = filename
    /\ hash' = GetQuickHashI(filename)
    /\ fi' = 0
    /\ pc' = "find"
    /\ last' = NoCall
    /\ UNCHANGED <<archive, uf, index, commentLen, codec, i, err, snapshot, writer>>

GetFileIndexCall == \E q \in Queries : EnterGetFileIndex("GetFileIndex", q)
GetFileDataByName == \E q \in Queries : EnterGetFileIndex("GetFileData", q)
GetFileTimeByName == \E q \in Queries : EnterGetFileIndex("GetFileTime", q)

\* GetFileIndex returns fileindex to its caller, which runs to its end
Return(fileindex) ==
    /\ pc' = "ready"
    /\ caller' = "none" /\ fname' = <<>> /\ hash' = Word32(0) /\ fi' = 0
    /\ IF caller = "GetFileData"
       THEN LET o == GetFileData(fileindex)
            IN  /\ last' = DataCall(fname, fileindex, o)
                /\ cur' = o.cur
                /\ entryOpen' = o.entryOpen
       ELSE /\ last' = [NoCall EXCEPT !.op = caller, !.name = fname,
                            !.index = fileindex,
                            !.time = IF caller = "GetFileTime"
                                     THEN GetFileTime(fileindex) ELSE NoTime]
            /\ UNCHANGED codec

\* the loop condition of GetFileIndex: i = filenameHashes.Find(hash, i)
FindNext ==
    /\ pc \in {"find", "again"}
    /\ LET j == Find(filenameHashes, hash, fi)
       IN  IF j # -1
           THEN /\ fi' = j
                /\ pc' = "cmp"
                /\ UNCHANGED <<caller, fname, hash, last, codec>>
           ELSE Return(NOT_FOUND)
    /\ UNCHANGED <<archive, uf, index, commentLen, i, err, snapshot, writer>>

\* the loop body of GetFileIndex
CmpStep ==
    /\ pc = "cmp"
    /\ IF EqI(fname, filenames[fi + 1])
       THEN Return(fi)
       ELSE /\ pc' = "again"
            /\ UNCHANGED <<scan, last, codec>>
    /\ UNCHANGED <<archive, uf, index, commentLen, i, err, snapshot, writer>>

GetFileDataCall ==
    /\ pc = "ready"
    /\ \E k \in Indices :
         LET o == GetFileData(k)
         IN  /\ last' = DataCall(<<>>, k, o)
             /\ cur' = o.cur
             /\ entryOpen' = o.entryOpen
    /\ UNCHANGED <<archive, uf, index, commentLen, pc, i, err, scan, snapshot, writer>>

GetFileTimeCall ==
    /\ pc = "ready"
    /\ \E k \in Indices :
         last' = [NoCall EXCEPT !.op = "GetFileTime", !.index = k,
                                !.time = GetFileTime(k)]
    /\ UNCHANGED <<reader, writer>>

GetCommentCall ==
    /\ pc = "ready"
    /\ last' = [NoCall EXCEPT !.op = "GetComment", !.buf = GetComment,
                              !.len = Len(GetComment.bytes)]
    /\ UNCHANGED <<reader, writer>>

\* the destructor
ZipFileDtor ==
    /\ pc = "ready"
    /\ pc' = "destroyed"
    /\ last' = [NoCall EXCEPT !.op = "~ZipFile"]
    /\ UNCHANGED <<archive, uf, index, commentLen, codec, i, err, scan, snapshot,
                   writer>>

ReaderNext ==
    \/ ZipFileCtor \/ ExtractStep \/ ExtractDone
    \/ GetFileIndexCall \/ GetFileDataByName \/ GetFileTimeByName
    \/ FindNext \/ CmpStep
    \/ GetFileDataCall \/ GetFileTimeCall \/ GetCommentCall
    \/ ZipFileDtor

(***************************************************************************)
(* ZipCreator.  The files on disk are fixed; reading one may still fail    *)
(* when SaveAs gets to it.                                                 *)
(***************************************************************************)
ZIP_OK == "ZIP_OK"

\* the files that exist: "a" and "/A", and what they hold
FileData == (<<Ch.a>> :> <<21>>) @@ (<<Ch.slash, Ch.A>> :> <<22>>)

\* the paths AddFile is called with: the files, and "b", which does not exist
Paths == DOMAIN FileData \cup { <<Ch.b>> }

\* the nameInZip arguments: NULL, "a" and 's-caron'
NoName == [null |-> TRUE, str |-> <<>>]
Name(str) == [null |-> FALSE, str |-> str]
ZipNames == { NoName, Name(<<Ch.a>>), Name(<<Ch.scaron>>) }

\* file::Exists
Exists(filePath) == filePath \in DOMAIN FileData

\* path::IsAbsolute and path::GetBaseName
IsAbsolute(filePath) == filePath # <<>> /\ filePath[1] = Ch.slash

RECURSIVE GetBaseName(_)
GetBaseName(filePath) ==
    IF \E k \in 1..Len(filePath) : filePath[k] = Ch.slash
    THEN GetBaseName(Tail(filePath))
    ELSE filePath

\* the name AddFile stores for nameInZip
NameInZip(filePath, nameInZip) ==
    IF nameInZip.null
    THEN IF IsAbsolute(filePath) THEN GetBaseName(filePath) ELSE filePath
    ELSE nameInZip.str

AddFile ==
    /\ pc = "none"
    /\ wpc = "idle"
    /\ \E filePath \in Paths, nameInZip \in ZipNames :
         IF ~Exists(filePath)
         THEN /\ last' = [NoCall EXCEPT !.op = "AddFile", !.name = filePath]
              /\ UNCHANGED pathsAndZipNames
         ELSE /\ Len(pathsAndZipNames) < 2 * MaxPending
              /\ pathsAndZipNames' =
                     Append(Append(pathsAndZipNames, filePath),
                            NameInZip(filePath, nameInZip))
              /\ last' = [NoCall EXCEPT !.op = "AddFile", !.name = filePath,
                                        !.ok = TRUE]
    /\ UNCHANGED <<reader, wpc, wi, result, zf, entryOpenW, out, closes>>

\* the first check of SaveAs
NothingToSaveNever == FALSE

NothingToSave == Len(pathsAndZipNames) = 0

\* the record of a SaveAs call; afterSave: the call before it was a SaveAs
SaveCall(ok, opened, cerr) ==
    [NoCall EXCEPT !.op = "SaveAs", !.ok = ok, !.opened = opened,
                   !.closeErr = cerr, !.afterSave = (last.op = "SaveAs")]

\* SaveAs up to the loop: zipOpen2_64 creates the archive, or fails
SaveAsCall ==
    /\ pc = "none"
    /\ wpc = "idle"
    /\ \E created \in BOOLEAN :
         IF NothingToSave \/ ~created
         THEN /\ last' = SaveCall(FALSE, FALSE, "none")
              /\ zf' = "none"
              /\ UNCHANGED <<wpc, wi, result, out>>
         ELSE /\ zf' = "open"
              /\ out' = <<>>
              /\ result' = TRUE
              /\ wi' = 0
              /\ wpc' = "loop"
              /\ last' = [NoCall EXCEPT !.afterSave = (last.op = "SaveAs")]
    /\ closes' = 0
    /\ UNCHANGED <<reader, pathsAndZipNames, entryOpenW>>

\* the entry that zipOpenNewFileInZip64 starts, without data; the call has no
\* flag argument, so bit 11 of the flags is clear
NewEntry(nameInZipUtf) ==
    [name |-> nameInZipUtf, flag |-> 0, data |-> <<>>, complete |-> FALSE]

\* the steps of the loop body, any of which may fail
SaveSteps == <<"ReadAll", "zipOpenNewFileInZip64", "zipWriteInFileInZip",
               "zipCloseFileInZip">>

\* the loop body of SaveAs, up to its step number failing (5: none fails)
SaveEntry ==
    /\ wpc = "loop"
    /\ wi < Len(pathsAndZipNames) \div 2
    /\ \E failing \in 1..(Len(SaveSteps) + 1) :
         LET fileName == pathsAndZipNames[2 * wi + 1]
             nameInZip == pathsAndZipNames[2 * wi + 2]
             nameInZipUtf == ToUtf8(nameInZip)
             fileData == FileData[fileName]
             opened == NewEntry(nameInZipUtf)
             written == [opened EXCEPT !.data = fileData]
             closed == [written EXCEPT !.complete = TRUE]
         IN  /\ out' = IF failing <= 2 THEN out
                       ELSE IF failing = 3 THEN Append(out, opened)
                       ELSE IF failing = 4 THEN Append(out, written)
                       ELSE Append(out, closed)
             /\ entryOpenW' = (failing = 3)
             /\ IF failing <= Len(SaveSteps)
                THEN /\ result' = FALSE
                     /\ wpc' = "exit"
                     /\ UNCHANGED wi
                ELSE /\ wi' = wi + 1
                     /\ UNCHANGED <<result, wpc>>
    /\ UNCHANGED <<reader, pathsAndZipNames, zf, closes, last>>

\* the loop is over: goto Exit
SaveLoopEnd ==
    /\ wpc = "loop"
    /\ ~(wi < Len(pathsAndZipNames) \div 2)
    /\ wpc' = "exit"
    /\ UNCHANGED <<reader, pathsAndZipNames, wi, result, zf, entryOpenW, out, closes, last>>

\* Exit: zipClose, whose error makes the result false
ExitCloseOnSuccessOnly(res, cerr) ==
    IF res
    THEN [closes |-> closes + 1, zf |-> "closed", result |-> (cerr = ZIP_OK)]
    ELSE [closes |-> closes, zf |-> zf, result |-> FALSE]

ExitClose(res, cerr) ==
    [closes |-> closes + 1, zf |-> "closed",
     result |-> IF cerr # ZIP_OK THEN FALSE ELSE res]

SaveExit ==
    /\ wpc = "exit"
    /\ \E cerr \in {ZIP_OK, "ZIP_ERRNO"} :
         LET x == ExitClose(result, cerr)
         IN  /\ closes' = x.closes
             /\ zf' = x.zf
             /\ result' = x.result
             /\ entryOpenW' = IF x.zf = "closed" THEN FALSE ELSE entryOpenW
             /\ last' = [SaveCall(x.result, TRUE, cerr) EXCEPT !.afterSave = last.afterSave]
    /\ wpc' = "idle"
    /\ UNCHANGED <<reader, pathsAndZipNames, wi, out>>

\* a ZipFile is constructed on the archive that a SaveAs call has written
OpenWritten ==
    /\ pc = "none"
    /\ wpc = "idle"
    /\ last.op = "SaveAs"
    /\ last.ok
    /\ archive' = Archive(TRUE,
                     [k \in 1..Len(out) |->
                         [name |-> out[k].name, flag |-> out[k].flag,
                          data |-> out[k].data, size |-> Len(out[k].data),
                          dosDate |-> 0, defects |-> {}]],
                     <<>>)
    /\ pc' = "ctor"
    /\ UNCHANGED <<uf, index, commentLen, codec, i, err, scan, snapshot, last, writer>>

WriterNext == AddFile \/ SaveAsCall \/ SaveEntry \/ SaveLoopEnd \/ SaveExit

ReaderInit ==
    /\ uf = FALSE
    /\ filenames = <<>> /\ filenameHashes = <<>> /\ fileinfo = <<>> /\ filepos = <<>>
    /\ origin = <<>>
    /\ commentLen = 0
    /\ cur = 0 /\ entryOpen = FALSE
    /\ i = 0 /\ err = UNZ_OK
    /\ caller = "none" /\ fname = <<>> /\ hash = Word32(0) /\ fi = 0
    /\ snapshot = <<>>

WriterInit ==
    /\ pathsAndZipNames = <<>>
    /\ wpc = "idle" /\ wi = 0 /\ result = FALSE
    /\ zf = "none" /\ entryOpenW = FALSE /\ out = <<>>
    /\ closes = 0

\* a ZipFile under construction on an archive
Init ==
    /\ archive \in Archives
    /\ pc = "ctor"
    /\ last = NoCall
    /\ ReaderInit
    /\ WriterInit

Next == ReaderNext

Spec == Init /\ [][Next]_vars

\* a ZipCreator, and then a ZipFile on the archive it wrote
InitWriter ==
    /\ archive = Archive(FALSE, <<>>, <<>>)
    /\ pc = "none"
    /\ last = NoCall
    /\ ReaderInit
    /\ WriterInit

NextWriter == WriterNext \/ OpenWritten \/ ReaderNext

SpecWriter == InitWriter /\ [][NextWriter]_vars

\* a call, once it has started, runs to its end
FairSpec == Spec /\ WF_vars(FindNext) /\ WF_vars(CmpStep)

(***************************************************************************)
(* The claims on the reader.                                               *)
(***************************************************************************)
\* the lowest index whose name equals filename ignoring case, else NOT_FOUND
LowestMatch(filename) ==
    IF \E k \in 0..(Len(filenames) - 1) : EqI(filename, filenames[k + 1])
    THEN CHOOSE k \in 0..(Len(filenames) - 1) :
             /\ EqI(filename, filenames[k + 1])
             /\ \A j \in 0..(k - 1) : ~EqI(filename, filenames[j + 1])
    ELSE NOT_FOUND

\* C1: every GetFileIndex(name) call returns, and returns the lowest index whose
\* name equals name ignoring case, or NOT_FOUND when no name of the index does.
C1_FindIndexReturnsLowest ==
    \A q \in Queries :
        (pc = "find" /\ caller = "GetFileIndex" /\ fname = q)
            ~> (/\ pc = "ready"
                /\ last.op = "GetFileIndex"
                /\ last.name = q
                /\ last.index = LowestMatch(q))

\* C2: when the entry at position fi has the hash of the name asked for and
\* fails the comparison of the names, the next candidate of the scan lies
\* after fi.
C2_ScanAdvances ==
    [][(pc = "again" /\ pc' = "cmp") => fi' > fi]_vars

\* the size that the index holds for the entry of the last call
LastSize == fileinfo[last.index + 1].uncompressed_size

\* C3: GetFileData returns a buffer only if the read gave exactly
\* uncompressed_size bytes and the close of the entry reported no error; after
\* a short read or an error at the close the buffer was freed exactly once and
\* NULL is returned.
C3_ReadIntegrity ==
    last.op = "GetFileData" =>
        /\ ~last.buf.null =>
              /\ last.allocated
              /\ last.readBytes = LastSize
              /\ last.closeErr = UNZ_OK
              /\ last.frees = 0
        /\ (last.allocated /\ (last.readBytes # LastSize \/ last.closeErr # UNZ_OK)) =>
              /\ last.buf.null
              /\ last.frees = 1

\* a CRC error at the close after a read of the full size
C3_Witness ==
    /\ last.op = "GetFileData"
    /\ last.allocated
    /\ last.readBytes = LastSize
    /\ last.closeErr # UNZ_OK
    /\ last.buf.null

\* C5: between the calls on a handle, the handle is as open as its constructor
\* left it and no entry is open in the codec, and GetFileData of an index
\* returns, and would return, what it returned right after the enumeration.
C5_ReadsIdempotent ==
    /\ pc \in {"ready", "find", "cmp", "again"} => uf = archive.openable
    /\ pc = "ready" =>
          /\ ~entryOpen
          /\ \A k \in Indices : GetFileData(k).buf = snapshot[k]
          /\ last.op = "GetFileData" => last.buf = snapshot[last.index]

\* an entry is read right after a read of an entry that failed
C5_Witness ==
    /\ pc = "ready"
    /\ last.op = "GetFileData"
    /\ ~last.buf.null
    /\ last.afterFailure

\* C8: the four sequences of the index have one length, and position k of each
\* describes one entry of the archive: the hash is that of the name, and the
\* name, the info and the locator are those of the entry at origin[k].
C8_ParallelIndex ==
    /\ Len(filenameHashes) = Len(filenames)
    /\ Len(fileinfo) = Len(filenames)
    /\ Len(filepos) = Len(filenames)
    /\ \A k \in 1..Len(filenames) :
          LET p == origin[k]
              e == archive.entries[p]
          IN  /\ p \in 1..Len(archive.entries)
              /\ filenameHashes[k] = GetQuickHashI(filenames[k])
              /\ filenames[k] = FromCodePage(e.name, CodePageOf(e.flag))
              /\ fileinfo[k] = [flag |-> e.flag, uncompressed_size |-> e.size,
                                dosDate |-> e.dosDate]
              /\ filepos[k].num_of_file \in {p, INVALID_ZIP_FILE_POS}

\* the enumeration is under way and has appended an entry without a locator
C8_Witness ==
    /\ pc = "enum"
    /\ WalkGoesOn
    /\ \E k \in 1..Len(filepos) : filepos[k].num_of_file = INVALID_ZIP_FILE_POS

\* C9: no entry that follows an entry whose info the codec failed to read is
\* appended to the index.
C9_StopsAtInfoError ==
    \A k \in 1..Len(origin) :
        \A p \in 1..Len(archive.entries) :
            HasDefect(archive.entries, p, "noinfo") => origin[k] < p

\* C10: a buffer that GetFileData returns holds the payload of the entry that
\* the enumeration appended at that index.
C10_DataOfIndexedEntry ==
    (last.op = "GetFileData" /\ ~last.buf.null) =>
        last.buf.bytes = archive.entries[origin[last.index + 1]].data

(***************************************************************************)
(* The claims on the writer.                                               *)
(***************************************************************************)
\* the content of the file stored under the k-th pair of the list
PendingName(k) == pathsAndZipNames[2 * k + 2]
PendingData(k) == FileData[pathsAndZipNames[2 * k + 1]]

\* C4: after a SaveAs call that succeeded, GetFileData of a name of the list,
\* on a ZipFile opened on the archive written, returns the content of every
\* file stored under that name.
C4_RoundTrip ==
    (pc = "ready" /\ wpc = "idle" /\ last.op = "GetFileData" /\ last.name # <<>>) =>
        \A k \in 0..((Len(pathsAndZipNames) \div 2) - 1) :
            PendingName(k) = last.name =>
                /\ ~last.buf.null
                /\ last.buf.bytes = PendingData(k)

\* C6: a SaveAs call that opened the archive has closed it exactly once when it
\* returns, and returns false if that close reported an error; a call that
\* returns without having opened it has closed nothing; and once the archive
\* is closed, no entry of it is written or left open.
C6_ClosedExactlyOnce ==
    /\ [](/\ closes <= 1
          /\ (wpc = "idle" /\ last.op = "SaveAs") =>
                /\ closes = (IF last.opened THEN 1 ELSE 0)
                /\ zf = (IF last.opened THEN "closed" ELSE "none")
                /\ last.ok => (last.opened /\ last.closeErr = ZIP_OK)
                /\ ~entryOpenW
          /\ wpc # "idle" => (zf = "open" /\ closes = 0))
    /\ [][(zf = "closed" /\ zf' = "closed") =>
              (out' = out /\ entryOpenW' = entryOpenW /\ closes' = closes)]_vars

\* a SaveAs call returns false after a write into an entry failed; the archive
\* was closed once, with the entries written before
C6_Witness ==
    /\ wpc = "idle"
    /\ last.op = "SaveAs"
    /\ ~last.ok
    /\ last.opened
    /\ last.closeErr = ZIP_OK
    /\ closes = 1
    /\ Len(out) = 2
    /\ out[1].complete
    /\ ~out[2].complete

\* C7 as stated: when a SaveAs call has returned, the list is empty.
C7_ListConsumed ==
    (wpc = "idle" /\ last.op = "SaveAs") => Len(pathsAndZipNames) = 0

\* C7 as amended: SaveAs leaves the list as it found it (only a successful
\* AddFile changes the list, by appending one pair to it), and a SaveAs call
\* on an empty list returns false without opening an archive.
C7_ListKept ==
    /\ [][pathsAndZipNames' # pathsAndZipNames =>
              /\ last'.op = "AddFile"
              /\ last'.ok
              /\ Len(pathsAndZipNames') = Len(pathsAndZipNames) + 2
              /\ SubSeq(pathsAndZipNames', 1, Len(pathsAndZipNames)) = pathsAndZipNames]_vars
    /\ []((wpc = "idle" /\ last.op = "SaveAs" /\ Len(pathsAndZipNames) = 0) =>
              (~last.ok /\ ~last.opened /\ closes = 0))
    /\ [](wpc # "idle" => Len(pathsAndZipNames) > 0)

\* a second SaveAs call, right after a SaveAs call, has written the entries of
\* the list again
C7_Witness ==
    /\ wpc = "idle"
    /\ last.op = "SaveAs"
    /\ last.afterSave
    /\ last.ok
    /\ Len(out) = Len(pathsAndZipNames) \div 2
    /\ Len(out) > 0

=============================================================================
